---- MODULE Spec2Model ----
(***************************************************************************)
(* Model of the suomipelit lobby server (src/src/main.rs): the directory   *)
(* of games (Games), the registry of sockets (Sockets), the router         *)
(* (process_incoming_message, process_disconnect) and the per-connection   *)
(* loop (handle_websocket, SocketState::run / handle_message / send).      *)
(*                                                                         *)
(* Option<T> is modelled as a sequence: None is << >>, Some(x) is <<x>>.   *)
(***************************************************************************)
EXTENDS Naturals, Sequences, FiniteSets

\* ------------------------------------------------------------- bounds
\* Number of connections ever accepted (each gets a fresh SocketId).
MaxSockets == 2
\* Number of distinct GameId strings in play.
MaxGameIds == 2
\* Length the Vec<Game> may grow to (createGame is not offered beyond it).
MaxGames == 2
\* Messages that may sit in all channels together before more frames arrive.
MaxInFlight == 1

\* mpsc::channel(10)
ChannelCapacity == 10

None == << >>
Some(x) == << x >>
Option(S) == {None} \cup {Some(x) : x \in S}
IsSome(o) == o # None
Unwrap(o) == o[1]
\* Option::unwrap_or
unwrap_or(o, d) == IF o = None THEN d ELSE o[1]

SocketIdOf(n) == CASE n = 1 -> "s1" [] n = 2 -> "s2" [] n = 3 -> "s3" [] OTHER -> "s4"
AllSockets == {SocketIdOf(n) : n \in 1..MaxSockets}

GameIdOf(n) == CASE n = 1 -> "g1" [] n = 2 -> "g2" [] OTHER -> "g3"
GameIds == {GameIdOf(n) : n \in 1..MaxGameIds}

\* Values the clients put in the free fields of their messages.
ServerNames == {"Arena"}
MaxPlayerValues == {4}
PlayerAmountValues == {2}
Passwords == {"pw"}
Reasons == {"full"}
RequiresPasswordValues == {None}
\* (description, candidate) pairs of the signaling messages.
Payloads == {<<Some("offer"), None>>, <<None, Some("ice")>>}

\* ------------------------------------------------------------ messages
\* enum IncomingMessage
InWebrtcSignaling(client_id, description, candidate) ==
    [type |-> "webrtcSignaling", client_id |-> client_id,
     description |-> description, candidate |-> candidate]
InCreateGame(server_name, max_players, game_id, requires_password) ==
    [type |-> "createGame", server_name |-> server_name, max_players |-> max_players,
     game_id |-> game_id, requires_password |-> requires_password]
InUpdateGameInfo(server_name, player_amount, max_players, requires_password) ==
    [type |-> "updateGameInfo", server_name |-> server_name,
     player_amount |-> player_amount, max_players |-> max_players,
     requires_password |-> requires_password]
InListGames == [type |-> "listGames"]
InJoinGame(game_id, password) ==
    [type |-> "joinGame", game_id |-> game_id, password |-> password]
InAcceptJoin(game_id, client_id) ==
    [type |-> "acceptJoin", game_id |-> game_id, client_id |-> client_id]
InRejectJoin(game_id, client_id, reason) ==
    [type |-> "rejectJoin", game_id |-> game_id, client_id |-> client_id,
     reason |-> reason]

\* The messages of each type the clients send.
WebrtcSignalingMessages ==
    {InWebrtcSignaling(c, p[1], p[2]) : c \in Option(AllSockets), p \in Payloads}
CreateGameMessages ==
    {InCreateGame(n, m, g, p) :
        n \in ServerNames, m \in MaxPlayerValues, g \in Option(GameIds),
        p \in RequiresPasswordValues}
UpdateGameInfoMessages ==
    {InUpdateGameInfo(n, a, m, p) :
        n \in ServerNames, a \in PlayerAmountValues, m \in MaxPlayerValues,
        p \in RequiresPasswordValues}
JoinGameMessages == {InJoinGame(g, p) : g \in GameIds, p \in Option(Passwords)}
AcceptJoinMessages == {InAcceptJoin(g, c) : g \in GameIds, c \in AllSockets}
RejectJoinMessages ==
    {InRejectJoin(g, c, r) : g \in GameIds, c \in AllSockets, r \in Reasons}

\* enum OutgoingMessage
OutError(reason) == [type |-> "error", reason |-> reason]
OutWebrtcSignaling(game_id, client_id, description, candidate) ==
    [type |-> "webrtcSignaling", game_id |-> game_id, client_id |-> client_id,
     description |-> description, candidate |-> candidate]
OutGameCreated(game_id) == [type |-> "gameCreated", game_id |-> game_id]
OutGameList(infos) == [type |-> "gameList", games |-> infos]
OutNewClient(game_id, client_id, password) ==
    [type |-> "newClient", game_id |-> game_id, client_id |-> client_id,
     password |-> password]
OutAcceptJoin(game_id) == [type |-> "acceptJoin", game_id |-> game_id]
OutRejectJoin(game_id, reason) ==
    [type |-> "rejectJoin", game_id |-> game_id, reason |-> reason]

\* struct OutgoingGameInfo
OutgoingGameInfo(game) ==
    [game_id |-> game.game_id, server_name |-> game.game_info.server_name,
     player_amount |-> game.game_info.player_amount,
     max_players |-> game.game_info.max_players,
     requires_password |-> game.game_info.requires_password]

\* struct GameInfo
GameInfo(server_name, player_amount, max_players, requires_password) ==
    [server_name |-> server_name, player_amount |-> player_amount,
     max_players |-> max_players, requires_password |-> requires_password]

\* struct Game
Game(game_id, host, clients, game_info) ==
    [game_id |-> game_id, host |-> host, clients |-> clients, game_info |-> game_info]

\* ------------------------------------------------------- impl Games
\* Iterator::position / find over the Vec: hits are the indices of the elements
\* satisfying the closure; the first of them, 0 if there is none.
Position(hits) ==
    IF hits = {} THEN 0 ELSE CHOOSE i \in hits : \A j \in hits : i <= j

RemoveAt(gs, index) ==
    [i \in 1..(Len(gs) - 1) |-> IF i < index THEN gs[i] ELSE gs[i + 1]]

Games_new == << >>

add(gs, game) == Append(gs, game)

\* update_info without the host test: the first game is updated.
update_info_any_host(gs, host, info) ==
    IF Len(gs) > 0
    THEN [games |-> [gs EXCEPT ![1].game_info = info], ret |-> TRUE]
    ELSE [games |-> gs, ret |-> FALSE]

update_info(gs, host, info) ==
    LET index == Position({i \in DOMAIN gs : gs[i].host = host})
    IN  IF index # 0
        THEN [games |-> [gs EXCEPT ![index].game_info = info], ret |-> TRUE]
        ELSE [games |-> gs, ret |-> FALSE]

\* join_game with the two errors swapped.
join_game_swapped_errors(gs, game_id, client) ==
    LET index == Position({i \in DOMAIN gs : gs[i].game_id = game_id})
    IN  IF index = 0
        THEN [games |-> gs, ok |-> FALSE, err |-> "AlreadyJoined", host |-> None]
        ELSE IF client \in gs[index].clients
        THEN [games |-> gs, ok |-> FALSE, err |-> "GameNotFound", host |-> None]
        ELSE [games |-> [gs EXCEPT ![index].clients = @ \cup {client}],
              ok |-> TRUE, err |-> "", host |-> Some(gs[index].host)]

\* join_game ignoring the result of clients.insert.
join_game_ignoring_insert(gs, game_id, client) ==
    LET index == Position({i \in DOMAIN gs : gs[i].game_id = game_id})
    IN  IF index = 0
        THEN [games |-> gs, ok |-> FALSE, err |-> "GameNotFound", host |-> None]
        ELSE [games |-> [gs EXCEPT ![index].clients = @ \cup {client}],
              ok |-> TRUE, err |-> "", host |-> Some(gs[index].host)]

join_game(gs, game_id, client) ==
    LET index == Position({i \in DOMAIN gs : gs[i].game_id = game_id})
    IN  IF index = 0
        THEN [games |-> gs, ok |-> FALSE, err |-> "GameNotFound", host |-> None]
        ELSE IF client \in gs[index].clients
        THEN [games |-> gs, ok |-> FALSE, err |-> "AlreadyJoined", host |-> None]
        ELSE [games |-> [gs EXCEPT ![index].clients = @ \cup {client}],
              ok |-> TRUE, err |-> "", host |-> Some(gs[index].host)]

\* remove_game finding the game by member as well as by host.
remove_game_by_member(gs, host) ==
    LET index == Position({i \in DOMAIN gs : gs[i].host = host \/ host \in gs[i].clients})
    IN  IF index # 0
        THEN [games |-> RemoveAt(gs, index), ret |-> TRUE]
        ELSE [games |-> gs, ret |-> FALSE]

remove_game(gs, host) ==
    LET index == Position({i \in DOMAIN gs : gs[i].host = host})
    IN  IF index # 0
        THEN [games |-> RemoveAt(gs, index), ret |-> TRUE]
        ELSE [games |-> gs, ret |-> FALSE]

remove_client(gs, client) ==
    [i \in DOMAIN gs |-> [gs[i] EXCEPT !.clients = @ \ {client}]]

list(gs) == [i \in DOMAIN gs |-> OutgoingGameInfo(gs[i])]

get_game_by_host(gs, host) ==
    LET index == Position({i \in DOMAIN gs : gs[i].host = host})
    IN  IF index = 0 THEN None ELSE Some(gs[index])

\* get_game_by_client without the membership test: the first game.
get_game_by_client_any(gs, client) ==
    LET index == Position(DOMAIN gs)
    IN  IF index = 0 THEN None ELSE Some(gs[index])

get_game_by_client(gs, client) ==
    LET index == Position({i \in DOMAIN gs : client \in gs[i].clients})
    IN  IF index = 0 THEN None ELSE Some(gs[index])

\* ------------------------------------------------ struct MessagesToSend
MessagesToSend_self(gs, message) ==
    [games |-> gs, self_message |-> Some(message), other_message |-> None]

MessagesToSend_other(gs, id, message) ==
    [games |-> gs, self_message |-> None, other_message |-> Some(<<id, message>>)]

MessagesToSend_none(gs) ==
    [games |-> gs, self_message |-> None, other_message |-> None]

\* ----------------------------------------------------------- the router
\* One arm of process_incoming_message per message type.  Each returns the
\* directory after the call and the MessagesToSend.  random_id is the value
\* GameId::random() yields in this call.
route_webrtc_signaling(socket_id, gs, message) ==
    IF IsSome(message.client_id)
    THEN LET game == get_game_by_host(gs, socket_id)
         IN  IF IsSome(game)
             THEN MessagesToSend_other(gs, Unwrap(message.client_id),
                      OutWebrtcSignaling(Unwrap(game).game_id, None,
                                         message.description, message.candidate))
             ELSE MessagesToSend_none(gs)
    ELSE LET game == get_game_by_client(gs, socket_id)
         IN  IF IsSome(game)
             THEN MessagesToSend_other(gs, Unwrap(game).host,
                      OutWebrtcSignaling(Unwrap(game).game_id, Some(socket_id),
                                         message.description, message.candidate))
             ELSE MessagesToSend_none(gs)

route_create_game(socket_id, gs, message, random_id) ==
    LET game_id == unwrap_or(message.game_id, random_id)
    IN  MessagesToSend_self(
            add(gs, Game(game_id, socket_id, {},
                         GameInfo(message.server_name, 1, message.max_players,
                                  unwrap_or(message.requires_password, FALSE)))),
            OutGameCreated(game_id))

route_update_game_info(socket_id, gs, message) ==
    LET r == update_info(gs, socket_id,
                 GameInfo(message.server_name, message.player_amount,
                          message.max_players,
                          unwrap_or(message.requires_password, FALSE)))
    IN  IF r.ret
        THEN MessagesToSend_none(r.games)
        ELSE MessagesToSend_self(r.games, OutError("You're not a game host"))

route_list_games(socket_id, gs) ==
    MessagesToSend_self(gs, OutGameList(list(gs)))

route_join_game(socket_id, gs, message) ==
    LET r == join_game(gs, message.game_id, socket_id)
    IN  IF ~r.ok
        THEN MessagesToSend_self(r.games, OutError(r.err))
        ELSE MessagesToSend_other(r.games, Unwrap(r.host),
                 OutNewClient(message.game_id, socket_id, message.password))

route_accept_join(socket_id, gs, message) ==
    MessagesToSend_other(gs, message.client_id, OutAcceptJoin(message.game_id))

route_reject_join(socket_id, gs, message) ==
    MessagesToSend_other(remove_client(gs, message.client_id), message.client_id,
                         OutRejectJoin(message.game_id, message.reason))

process_incoming_message(socket_id, gs, message, random_id) ==
    CASE message.type = "webrtcSignaling" -> route_webrtc_signaling(socket_id, gs, message)
      [] message.type = "createGame" -> route_create_game(socket_id, gs, message, random_id)
      [] message.type = "updateGameInfo" -> route_update_game_info(socket_id, gs, message)
      [] message.type = "listGames" -> route_list_games(socket_id, gs)
      [] message.type = "joinGame" -> route_join_game(socket_id, gs, message)
      [] message.type = "acceptJoin" -> route_accept_join(socket_id, gs, message)
      [] message.type = "rejectJoin" -> route_reject_join(socket_id, gs, message)

process_disconnect(socket_id, gs) ==
    LET r == remove_game(gs, socket_id)
    IN  IF r.ret THEN r.games ELSE remove_client(r.games, socket_id)

\* ------------------------------------------------------------- state
VARIABLES
    games,      \* AppState.games: the Vec<Game> inside Games
    sockets,    \* AppState.sockets: the keys of the HashMap inside Sockets
    poisoned,   \* whether the Mutex<Sockets> is poisoned (a holder panicked)
    pc,         \* per connection: where its handle_websocket task stands
    pending,    \* per connection: the other_message still to be delivered
    queue,      \* per connection: the contents of its mpsc channel
    event       \* what the last step did (its inputs and its outputs)

vars == <<games, sockets, poisoned, pc, pending, queue, event>>

\* Positions of a handle_websocket task.
\*   idle        the connection has not been accepted yet
\*   select      in the select! of SocketState::run
\*   get_sender  in handle_message, before lock_sockets(|s| s.get(..))
\*   enqueue     in handle_message, holding the clone of tx, before tx.send
\*   unregister  run() has returned, before lock_sockets(|s| s.unregister(..))
\*   done        handle_websocket has returned
\*   panicked    the task panicked (an unwrap failed) and was dropped
Running == {"select", "get_sender", "enqueue"}

\* The mpsc::Receiver lives in SocketState until handle_websocket returns or
\* the task is dropped.
RxAlive(c) == pc[c] \in Running \cup {"unregister"}

Event(kind, c, message, self_message, other_message, sent) ==
    [kind |-> kind, socket_id |-> c, message |-> message,
     self_message |-> self_message, other_message |-> other_message, sent |-> sent]

RECURSIVE SumLen(_, _)
SumLen(q, S) ==
    IF S = {} THEN 0
    ELSE LET c == CHOOSE x \in S : TRUE IN Len(q[c]) + SumLen(q, S \ {c})

\* Routed messages not yet written to their target's transport.
InFlight ==
    SumLen(queue, AllSockets)
    + Cardinality({c \in AllSockets : pc[c] \in {"get_sender", "enqueue"}})

Init ==
    /\ games = Games_new
    /\ sockets = {}
    /\ poisoned = FALSE
    /\ pc = [c \in AllSockets |-> "idle"]
    /\ pending = [c \in AllSockets |-> None]
    /\ queue = [c \in AllSockets |-> << >>]
    /\ event = Event("init", "", None, None, None, None)

\* A panic unwinds the task: SocketState (socket, rx) is dropped, nothing else
\* runs.  The registry entry and the directory entries stay as they are.
Panic(c) ==
    /\ pc' = [pc EXCEPT ![c] = "panicked"]
    /\ pending' = [pending EXCEPT ![c] = None]
    /\ queue' = [queue EXCEPT ![c] = << >>]

\* handle_websocket up to client.run(): Sockets::register under lock_sockets
\* (lock().unwrap() panics on a poisoned mutex).  SocketId::random() yields an
\* id no connection has had.
Connect(c) ==
    /\ pc[c] = "idle"
    /\ \E n \in 1..MaxSockets :
           c = SocketIdOf(n) /\ \A k \in 1..(n - 1) : pc[SocketIdOf(k)] # "idle"
    /\ IF poisoned
       THEN /\ Panic(c)
            /\ event' = Event("lock_panic", c, None, None, None, None)
            /\ UNCHANGED <<games, sockets, poisoned>>
       ELSE /\ sockets' = sockets \cup {c}
            /\ pc' = [pc EXCEPT ![c] = "select"]
            /\ event' = Event("connect", c, None, None, None, None)
            /\ UNCHANGED <<games, poisoned, pending, queue>>

\* handle_message(None): the inbound stream ended.
RecvClosed(c) ==
    /\ pc[c] = "select"
    /\ games' = process_disconnect(c, games)
    /\ pc' = [pc EXCEPT ![c] = "unregister"]
    /\ event' = Event("closed", c, None, None, None, None)
    /\ UNCHANGED <<sockets, poisoned, pending, queue>>

\* handle_message(Some(Err(_))): a read error; returns true.
RecvError(c) ==
    /\ pc[c] = "select"
    /\ event' = Event("read_error", c, None, None, None, None)
    /\ UNCHANGED <<games, sockets, poisoned, pc, pending, queue>>

\* handle_message: data.is_empty().
RecvEmpty(c) ==
    /\ pc[c] = "select"
    /\ event' = Event("empty", c, None, None, None, None)
    /\ UNCHANGED <<games, sockets, poisoned, pc, pending, queue>>

\* SocketState::send on the connection's own transport:
\* socket.send(..).await.unwrap().  ok is whether the transport accepts it.
send(c, kind, message, self_message, ok) ==
    IF ok
    THEN /\ event' = Event(kind, c, message, self_message, None, self_message)
         /\ UNCHANGED <<pc, pending, queue>>
    ELSE /\ Panic(c)
         /\ event' = Event(kind, c, message, self_message, None, None)

\* handle_message: message.to_text() fails; an error goes to the sender.
RecvNonText(c, ok) ==
    /\ pc[c] = "select"
    /\ send(c, "non_text", None, Some(OutError("Invalid message")), ok)
    /\ UNCHANGED <<games, sockets, poisoned>>

\* handle_message: serde_json::from_str fails; an error goes to the sender.
RecvInvalid(c, ok) ==
    /\ pc[c] = "select"
    /\ send(c, "invalid", None, Some(OutError("Invalid message: err")), ok)
    /\ UNCHANGED <<games, sockets, poisoned>>

\* Values GameId::random() may yield: an id no game in the directory has.
RandomGameIds(gs) == GameIds \ {gs[i].game_id : i \in DOMAIN gs}

\* handle_message: a decoded message goes through process_incoming_message
\* under lock_games; the self_message, if any, is sent on the connection's own
\* transport; the other_message, if any, is kept for the two steps that follow
\* (GetSender, Enqueue).
handle_message(c, message, random_id, ok) ==
    /\ pc[c] = "select"
    /\ LET m == process_incoming_message(c, games, message, random_id)
       IN  /\ games' = m.games
           /\ IF IsSome(m.self_message)
              THEN send(c, "message", Some(message), m.self_message, ok)
              ELSE /\ ok
                   /\ pending' = [pending EXCEPT ![c] = m.other_message]
                   /\ pc' = [pc EXCEPT ![c] =
                          IF IsSome(m.other_message) THEN "get_sender" ELSE "select"]
                   /\ event' = Event("message", c, Some(message), None,
                                     m.other_message, None)
                   /\ UNCHANGED queue
    /\ UNCHANGED <<sockets, poisoned>>

\* A decoded frame arrives, within the bounds of the model.
RecvMessage(c, message, random_id, ok) ==
    /\ InFlight < MaxInFlight
    /\ message.type = "createGame" => Len(games) < MaxGames
    /\ handle_message(c, message, random_id, ok)

\* lock_sockets(|sockets| sockets.get(&other_socket_id)): lock().unwrap()
\* panics on a poisoned mutex; get's unwrap panics inside the lock, which
\* poisons it.
GetSender(c) ==
    /\ pc[c] = "get_sender"
    /\ LET other_socket_id == Unwrap(pending[c])[1]
       IN  IF poisoned
           THEN /\ Panic(c)
                /\ event' = Event("lock_panic", c, None, None, pending[c], None)
                /\ UNCHANGED poisoned
           ELSE IF other_socket_id \in sockets
           THEN /\ pc' = [pc EXCEPT ![c] = "enqueue"]
                /\ event' = Event("get_sender", c, None, None, pending[c], None)
                /\ UNCHANGED <<poisoned, pending, queue>>
           ELSE /\ Panic(c)
                /\ event' = Event("get_panic", c, None, None, pending[c], None)
                /\ poisoned' = TRUE
    /\ UNCHANGED <<games, sockets>>

\* tx.send(outgoing).await.unwrap(): waits while the channel is full, fails
\* once the receiver is gone.
Enqueue(c) ==
    /\ pc[c] = "enqueue"
    /\ LET other_socket_id == Unwrap(pending[c])[1]
           outgoing == Unwrap(pending[c])[2]
       IN  IF ~RxAlive(other_socket_id)
           THEN /\ Panic(c)
                /\ event' = Event("enqueue_panic", c, None, None, pending[c], None)
           ELSE /\ Len(queue[other_socket_id]) < ChannelCapacity
                /\ queue' = [queue EXCEPT ![other_socket_id] = Append(@, outgoing)]
                /\ pc' = [pc EXCEPT ![c] = "select"]
                /\ pending' = [pending EXCEPT ![c] = None]
                /\ event' = Event("enqueue", c, None, None, pending[c], None)
    /\ UNCHANGED <<games, sockets, poisoned>>

\* run(): Some(outgoing) = self.rx.recv() => self.send(outgoing).
Deliver(c, ok) ==
    /\ pc[c] = "select"
    /\ queue[c] # << >>
    /\ IF ok
       THEN /\ queue' = [queue EXCEPT ![c] = Tail(@)]
            /\ event' = Event("deliver", c, None, None, None, Some(Head(queue[c])))
            /\ UNCHANGED <<pc, pending>>
       ELSE /\ Panic(c)
            /\ event' = Event("deliver", c, None, None, None, None)
    /\ UNCHANGED <<games, sockets, poisoned>>

\* handle_websocket after client.run(): Sockets::unregister under lock_sockets,
\* then the SocketState is dropped.
Unregister(c) ==
    /\ pc[c] = "unregister"
    /\ IF poisoned
       THEN /\ Panic(c)
            /\ event' = Event("lock_panic", c, None, None, None, None)
            /\ UNCHANGED sockets
       ELSE /\ sockets' = sockets \ {c}
            /\ pc' = [pc EXCEPT ![c] = "done"]
            /\ queue' = [queue EXCEPT ![c] = << >>]
            /\ event' = Event("unregister", c, None, None, None, None)
            /\ UNCHANGED pending
    /\ UNCHANGED <<games, poisoned>>

Next ==
    \E c \in AllSockets :
        \/ Connect(c)
        \/ RecvClosed(c)
        \/ RecvError(c)
        \/ RecvEmpty(c)
        \/ \E ok \in BOOLEAN : RecvNonText(c, ok)
        \/ \E ok \in BOOLEAN : RecvInvalid(c, ok)
        \/ \E message \in WebrtcSignalingMessages : RecvMessage(c, message, "", TRUE)
        \/ \E message \in CreateGameMessages, ok \in BOOLEAN :
               IF message.game_id = None
               THEN \E random_id \in RandomGameIds(games) :
                        RecvMessage(c, message, random_id, ok)
               ELSE RecvMessage(c, message, "", ok)
        \/ \E message \in UpdateGameInfoMessages, ok \in BOOLEAN :
               RecvMessage(c, message, "", ok)
        \/ \E ok \in BOOLEAN : RecvMessage(c, InListGames, "", ok)
        \/ \E message \in JoinGameMessages, ok \in BOOLEAN :
               RecvMessage(c, message, "", ok)
        \/ \E message \in AcceptJoinMessages : RecvMessage(c, message, "", TRUE)
        \/ \E message \in RejectJoinMessages : RecvMessage(c, message, "", TRUE)
        \/ GetSender(c)
        \/ Enqueue(c)
        \/ \E ok \in BOOLEAN : Deliver(c, ok)
        \/ Unregister(c)

Spec == Init /\ [][Next]_vars

\* ---------------------------------------------------- backpressure
\* The relay under load, every transport accepting what is sent: connections
\* are accepted, acceptJoin frames (routed to the id they name whatever the
\* directory holds) arrive without limit, and the channels fill up to
\* ChannelCapacity.  No stream ends and no socket.send fails.
BackpressureMessages == {InAcceptJoin(GameIdOf(1), c) : c \in AllSockets}

NextBackpressure ==
    \E c \in AllSockets :
        \/ Connect(c)
        \/ \E message \in BackpressureMessages : handle_message(c, message, "", TRUE)
        \/ GetSender(c)
        \/ Enqueue(c)
        \/ Deliver(c, TRUE)

SpecBackpressure == Init /\ [][NextBackpressure]_vars

\* ------------------------------------------------------------ claims
\* What the claims speak of.
Hosts(gs) == {gs[i].host : i \in DOMAIN gs}
HasGameId(gs, game_id) == \E i \in DOMAIN gs : gs[i].game_id = game_id
IsMemberOf(gs, game_id, c) ==
    \E i \in DOMAIN gs : gs[i].game_id = game_id /\ c \in gs[i].clients
\* The disconnect cleanup of c (process_disconnect) has run.
CleanedUp(c) == pc[c] \in {"unregister", "done"}
\* The last step was handle_message on a decoded message of this type.
Routed(e, type) == e.kind = "message" /\ e.message[1].type = type
IsError(o, reason) == IsSome(o) /\ o[1].type = "error" /\ o[1].reason = reason

\* C1: no session in the directory has its own host id in its membership set.
C1_HostNeverMember ==
    \A i \in DOMAIN games : games[i].host \notin games[i].clients

\* C2: the directory holds at most one session per host connection.
C2_OneSessionPerHost ==
    \A i, j \in DOMAIN games : games[i].host = games[j].host => i = j

\* C3: after a connection's disconnect cleanup has run, no session whose host
\* is that connection remains in the directory, and a listGames reply lists
\* exactly the sessions of the directory, so none of that connection.
C3_NoSessionAfterDisconnect ==
    /\ \A c \in AllSockets : CleanedUp(c) => c \notin Hosts(games)
    /\ Routed(event, "listGames") =>
           /\ IsSome(event.self_message)
           /\ event.self_message[1].type = "gameList"
           /\ event.self_message[1].games = list(games)

\* A directory in which the failures of C1, C2 and C20 are not in play: no host
\* is its own member, no connection hosts two sessions, no id names two.
WellFormed(gs) ==
    \A i \in DOMAIN gs :
        /\ gs[i].host \notin gs[i].clients
        /\ \A j \in DOMAIN gs :
               (gs[i].host = gs[j].host \/ gs[i].game_id = gs[j].game_id) => i = j

\* C4: after a connection's disconnect cleanup has run, that connection is in
\* the membership set of no session.  (Stated of the well-formed directories,
\* so that what TLC shows is this claim's own failure.)
C4_NoMembershipAfterDisconnect ==
    WellFormed(games) =>
        \A c \in AllSockets :
            CleanedUp(c) => \A i \in DOMAIN games : c \notin games[i].clients

\* C5: a joinGame naming a session id that no session has leaves the directory
\* unchanged and yields exactly one message, the error GameNotFound, for the
\* sender: nothing is routed to, or queued for, any other connection, and what
\* goes out on the sender's transport is that error.
C5_JoinUnknownGame ==
    [][(Routed(event', "joinGame") /\ ~HasGameId(games, event'.message[1].game_id))
        => /\ games' = games
           /\ IsError(event'.self_message, "GameNotFound")
           /\ event'.other_message = None
           /\ event'.sent \in {None, event'.self_message}
           /\ event'.sent = None => pc'[event'.socket_id] = "panicked"
           /\ pending' = pending
           /\ \A d \in AllSockets \ {event'.socket_id} :
                  queue'[d] = queue[d] /\ pc'[d] = pc[d]]_vars

C5_Witness ==
    /\ Routed(event, "joinGame")
    /\ IsError(event.self_message, "GameNotFound")
    /\ event.sent = event.self_message
    /\ games # << >>

\* C6: a joinGame by a connection that is already a member of a session with
\* that id yields the error AlreadyJoined for the sender only, no newClient
\* for the host, and leaves the directory (so every membership) unchanged; the
\* state it leaves is one in which repeating it does the same.
C6_JoinAlreadyJoined ==
    [][(Routed(event', "joinGame")
        /\ IsMemberOf(games, event'.message[1].game_id, event'.socket_id))
        => /\ games' = games
           /\ IsError(event'.self_message, "AlreadyJoined")
           /\ event'.other_message = None
           /\ event'.sent \in {None, event'.self_message}
           /\ IsMemberOf(games', event'.message[1].game_id, event'.socket_id)
           /\ pending' = pending
           /\ \A d \in AllSockets \ {event'.socket_id} :
                  queue'[d] = queue[d] /\ pc'[d] = pc[d]]_vars

C6_Witness ==
    /\ Routed(event, "joinGame")
    /\ IsError(event.self_message, "AlreadyJoined")
    /\ event.sent = event.self_message
    /\ IsMemberOf(games, event.message[1].game_id, event.socket_id)

\* C7: an updateGameInfo from a connection that hosts no session changes no
\* session and yields exactly one message, an error for the sender; nothing is
\* routed to, or queued for, any other connection.
C7_UpdateByNonHost ==
    [][(Routed(event', "updateGameInfo") /\ event'.socket_id \notin Hosts(games))
        => /\ games' = games
           /\ IsError(event'.self_message, "You're not a game host")
           /\ event'.other_message = None
           /\ event'.sent \in {None, event'.self_message}
           /\ pending' = pending
           /\ \A d \in AllSockets \ {event'.socket_id} :
                  queue'[d] = queue[d] /\ pc'[d] = pc[d]]_vars

C7_Witness ==
    /\ Routed(event, "updateGameInfo")
    /\ IsError(event.self_message, "You're not a game host")
    /\ event.sent = event.self_message
    /\ games # << >>

\* C8: when the target of a routed message has disconnected and is no longer
\* registered (at the lookup), or has gone since the lookup (at the enqueue),
\* the message is dropped and the sending connection's loop goes on: it is
\* back in its select.
C8_StaleTargetDropped ==
    [][\A c \in AllSockets :
          /\ (pc[c] = "get_sender" /\ ~poisoned /\ pc[pending[c][1][1]] = "done"
              /\ pc'[c] # pc[c]) => pc'[c] = "select"
          /\ (pc[c] = "enqueue" /\ pc[pending[c][1][1]] = "done"
              /\ pc'[c] # pc[c]) => pc'[c] = "select"]_vars

\* C9: a connection leaves a session's membership only by a rejectJoin of that
\* session's host naming it, or by its own disconnect cleanup; a rejectJoin of
\* any other connection leaves that session's membership unchanged.  (Stated
\* of the well-formed directories, the host's loop running.)
C9_OnlyHostRemovesMembers ==
    [][WellFormed(games) =>
       /\ Routed(event', "rejectJoin") =>
              \A i \in DOMAIN games :
                  (games[i].host # event'.socket_id /\ pc[games[i].host] \in Running)
                      => games'[i].clients = games[i].clients
       /\ (event'.kind = "message" /\ Len(games') >= Len(games)) =>
              \A i \in DOMAIN games : \A b \in games[i].clients \ games'[i].clients :
                  pc[games[i].host] \in Running =>
                  /\ event'.message[1].type = "rejectJoin"
                  /\ event'.message[1].client_id = b
                  /\ event'.socket_id = games[i].host
       /\ (event'.kind = "closed" /\ Len(games') = Len(games)) =>
              \A i \in DOMAIN games :
                  games[i].clients \ games'[i].clients \subseteq {event'.socket_id}]_vars

\* C10: the join handshake.  A joinGame of B for a session G hosted by A, B no
\* member of it, routes exactly newClient{G, B} to A and nothing to B; once B
\* is a member of G, an acceptJoin{G} is routed to B only by an
\* acceptJoin{G, B} of A; a webrtcSignaling of A naming B is routed to B with
\* gameId G and no clientId; and what B's loop writes to its transport is what
\* was routed to B.  (Stated of the well-formed directories, A's loop running.)
C10_JoinHandshake ==
    [][WellFormed(games) =>
       /\ Routed(event', "joinGame") =>
              \A i \in DOMAIN games :
                  (games[i].game_id = event'.message[1].game_id
                   /\ event'.socket_id \notin games[i].clients)
                  => /\ event'.self_message = None
                     /\ event'.sent = None
                     /\ event'.other_message =
                            Some(<<games[i].host,
                                   OutNewClient(games[i].game_id, event'.socket_id,
                                                event'.message[1].password)>>)
       /\ (event'.kind = "message" /\ IsSome(event'.other_message)
           /\ event'.other_message[1][2].type = "acceptJoin") =>
              \A i \in DOMAIN games :
                  (games[i].game_id = event'.other_message[1][2].game_id
                   /\ event'.other_message[1][1] \in games[i].clients
                   /\ pc[games[i].host] \in Running)
                  => /\ event'.message[1].type = "acceptJoin"
                     /\ event'.socket_id = games[i].host
       /\ (Routed(event', "webrtcSignaling") /\ IsSome(event'.message[1].client_id)) =>
              \A i \in DOMAIN games :
                  (games[i].host = event'.socket_id
                   /\ event'.message[1].client_id[1] \in games[i].clients)
                  => event'.other_message =
                         Some(<<event'.message[1].client_id[1],
                                OutWebrtcSignaling(games[i].game_id, None,
                                    event'.message[1].description,
                                    event'.message[1].candidate)>>)
       /\ (event'.kind = "deliver" /\ IsSome(event'.sent)) =>
              event'.sent[1] = Head(queue[event'.socket_id])]_vars

\* The sessions of gs, as (host, session id) pairs in directory order.
Sessions(gs) == [i \in DOMAIN gs |-> <<gs[i].host, gs[i].game_id>>]

\* C11: a session leaves the directory only in the step that is the disconnect
\* cleanup of its own host: in every other step (a message of any type from
\* any connection, the disconnect of a member or of an unrelated connection)
\* every session stays where it is with its host and its session id, and the
\* cleanup of a host removes one session, of which that connection is the host,
\* and leaves the others as they are.
C11_OnlyHostDisconnectRemoves ==
    [][\/ /\ Len(games') >= Len(games)
           /\ \A i \in DOMAIN games : Sessions(games')[i] = Sessions(games)[i]
       \/ /\ event'.kind = "closed"
           /\ \E k \in DOMAIN games :
                  /\ games[k].host = event'.socket_id
                  /\ Sessions(games') = Sessions(RemoveAt(games, k))]_vars

\* A connection that joined a session (the newClient naming it is still in the
\* host's channel) and hosts none has run its cleanup, and the session is
\* still in the directory, without that member.
C11_Witness ==
    /\ event.kind = "closed"
    /\ WellFormed(games)
    /\ event.socket_id \notin Hosts(games)
    /\ \E i \in DOMAIN games :
           /\ event.socket_id \notin games[i].clients
           /\ pc[games[i].host] = "select"
           /\ queue[games[i].host] =
                  <<OutNewClient(games[i].game_id, event.socket_id, None)>>

\* The task of c has ended: handle_websocket returned, or it panicked.
Terminated(c) == pc[c] \in {"done", "panicked"}

\* C12: every connection whose loop has stopped and whose task has ended has
\* run the disconnect cleanup and then left the registry: it has no registry
\* entry and hosts no session.
C12_TerminatedIsCleanedUp ==
    \A c \in AllSockets :
        Terminated(c) => /\ pc[c] = "done"
                         /\ c \notin sockets
                         /\ c \notin Hosts(games)

\* The step e was one in which socket.send on the connection's own transport
\* failed: for a self-addressed reply, or for a message taken from its channel.
SendFailed(e) ==
    /\ e.sent = None
    /\ \/ e.kind \in {"non_text", "invalid", "message"} /\ IsSome(e.self_message)
       \/ e.kind = "deliver"

\* The directory after the routing of step e, taken from gs.
RoutedGames(gs, e) ==
    IF e.kind = "message"
    THEN process_incoming_message(e.socket_id, gs, e.message[1],
             IF e.message[1].type = "createGame" THEN e.self_message[1].game_id ELSE "").games
    ELSE gs

\* C13: a step in which sending on the connection's own transport fails ends
\* that connection's loop with the disconnect cleanup of an inbound closure
\* (process_disconnect on the directory), the connection standing before the
\* removal of its registry entry.
C13_SendFailureCleansUp ==
    [][SendFailed(event') =>
          /\ games' = process_disconnect(event'.socket_id, RoutedGames(games, event'))
          /\ pc'[event'.socket_id] = "unregister"]_vars

\* C14: a read error on the inbound stream ends the loop as an inbound closure
\* does: the disconnect cleanup runs on the directory and the connection
\* stands before the removal of its registry entry.
C14_ReadErrorIsFatal ==
    [][event'.kind = "read_error" =>
          /\ games' = process_disconnect(event'.socket_id, games)
          /\ pc'[event'.socket_id] = "unregister"]_vars

\* c is suspended in tx.send: the target's receiver is alive and its channel
\* is full.
Suspended(c) ==
    /\ pc[c] = "enqueue"
    /\ RxAlive(pending[c][1][1])
    /\ Len(queue[pending[c][1][1]]) = ChannelCapacity

\* C15: backpressure never wedges the relay: there is no set of running
\* connections each suspended enqueueing to the full channel of a connection
\* of the set (its own included), so that none of them is in its select to
\* drain its channel.  (Checked where every transport accepts every send.)
C15_NoWedge ==
    ~ \E S \in (SUBSET AllSockets) \ {{}} :
          \A c \in S : Suspended(c) /\ pending[c][1][1] \in S

\* C16: the directory is consistent with the registry: every host and every
\* member recorded in a session is a registered connection.
C16_DirectoryWithinRegistry ==
    \A i \in DOMAIN games :
        games[i].host \in sockets /\ games[i].clients \subseteq sockets

\* C17: a webrtcSignaling with no target id leaves the directory unchanged and
\* sends nothing to the sender; if the sender is a member of some session,
\* exactly one message is routed, to the host of a session that has the sender
\* as member, with that session's id and the sender's id as clientId; if the
\* sender is a member of no session, nothing is routed and its loop goes on.
C17_SignalingWithoutTarget ==
    [][(Routed(event', "webrtcSignaling") /\ event'.message[1].client_id = None)
        => /\ games' = games
           /\ event'.self_message = None
           /\ event'.sent = None
           /\ queue' = queue
           /\ IF \E i \in DOMAIN games : event'.socket_id \in games[i].clients
              THEN \E i \in DOMAIN games :
                       /\ event'.socket_id \in games[i].clients
                       /\ event'.other_message =
                              Some(<<games[i].host,
                                     OutWebrtcSignaling(games[i].game_id,
                                         Some(event'.socket_id),
                                         event'.message[1].description,
                                         event'.message[1].candidate)>>)
                       /\ pending'[event'.socket_id] = event'.other_message
              ELSE /\ event'.other_message = None
                   /\ pending' = pending
                   /\ pc' = pc]_vars

\* A member's signaling without target id was routed to its session's host.
C17_Witness ==
    /\ Routed(event, "webrtcSignaling")
    /\ event.message[1].client_id = None
    /\ WellFormed(games)
    /\ \E i \in DOMAIN games :
           /\ event.socket_id \in games[i].clients
           /\ IsSome(event.other_message)
           /\ event.other_message[1][1] = games[i].host
           /\ event.other_message[1][2].client_id = Some(event.socket_id)

\* The frames that cannot be decoded as an IncomingMessage: a non-text
\* payload, a text that is no JSON of the schema, an empty text.
Undecodable == {"non_text", "invalid", "empty"}

\* C18: an undecodable frame (the empty text frame included) has exactly one
\* error message sent to its sender, leaves the directory and the registry
\* unchanged, sends nothing to any other connection and leaves the connection
\* in its loop.  (Stated of the steps whose send, if any, was accepted.)
C18_UndecodableFrameGetsError ==
    [][(event'.kind \in Undecodable /\ pc'[event'.socket_id] # "panicked")
        => /\ IsSome(event'.sent)
           /\ event'.sent[1].type = "error"
           /\ games' = games
           /\ sockets' = sockets
           /\ queue' = queue
           /\ pending' = pending
           /\ pc' = pc]_vars

\* C19: connections are isolated from each other's faults: no message of a
\* connection leaves the registry unusable (its mutex poisoned), and no
\* connection fails at taking the registry's lock.
C19_FaultIsolation ==
    /\ ~poisoned
    /\ event.kind # "lock_panic"

\* C20: no two sessions of the directory share a session id.  (Stated of the
\* directories with one session per host, so that what TLC shows is two
\* connections' sessions.)
C20_UniqueGameIds ==
    C2_OneSessionPerHost =>
        \A i, j \in DOMAIN games : games[i].game_id = games[j].game_id => i = j

====
